---- MODULE Spec2Model ----
(***************************************************************************)
(* The authenticated client of taxbit_gemini (private_client.py):          *)
(* PrivateClient.api_query, the signed-request engine, and the thirteen    *)
(* typed endpoint methods built on it.                                     *)
(*                                                                         *)
(* Python values are modelled as follows.                                  *)
(*   str    a sequence of one-character strings, <<"b","t","c">> ("text")  *)
(*   bytes  a sequence of byte values (what str.encode gives), or, for     *)
(*          the base64 text b64encode gives, of its ASCII characters       *)
(*   value  a tagged record [t |-> tag, v |-> ...]: a str, an int, a bool, *)
(*          None, a list or a dict held inside another value               *)
(*   dict   a sequence of <<key, value>> pairs with distinct keys, in      *)
(*          insertion order (keys are texts in payloads, strings in        *)
(*          kwargs)                                                        *)
(*   int    a natural; the millisecond clock, which does not fit TLC's     *)
(*          integers, is a pair <<hi, lo>> standing for hi * 10^9 + lo     *)
(***************************************************************************)
EXTENDS Integers, Sequences, FiniteSets, TLC

(***************************************************************************)
(* Text                                                                    *)
(***************************************************************************)

\* The printable ASCII characters, in code order: Printable[i] has code i + 31
\* (the backquote, which a TLA+ string cannot hold, is spelled out).
Printable ==
    << " ", "!", "\"", "#", "$", "%", "&", "'", "(", ")", "*", "+", ",", "-", ".", "/",
       "0", "1", "2", "3", "4", "5", "6", "7", "8", "9", ":", ";", "<", "=", ">", "?",
       "@", "A", "B", "C", "D", "E", "F", "G", "H", "I", "J", "K", "L", "M", "N", "O",
       "P", "Q", "R", "S", "T", "U", "V", "W", "X", "Y", "Z", "[", "\\", "]", "^", "_",
       "<backtick>", "a", "b", "c", "d", "e", "f", "g", "h", "i", "j", "k", "l", "m", "n", "o",
       "p", "q", "r", "s", "t", "u", "v", "w", "x", "y", "z", "{", "|", "}", "~" >>

\* A sequence given as a function on 1..n, as a tuple (the same value, held
\* element by element).
AsTuple(f) == f \o << >>

\* The code of every printable ASCII character.
CodeOf ==
    [ch \in { Printable[i] : i \in 1..Len(Printable) } |->
        31 + (CHOOSE i \in 1..Len(Printable) : Printable[i] = ch)]

\* The byte value of an ASCII character (str.encode('utf-8') on ASCII text).
Ord(ch) == CodeOf[ch]

\* The ASCII character of a byte value (bytes.decode('utf-8') on ASCII bytes).
Chr(b) == Printable[b - 31]

\* s.encode('utf-8'): the byte values of a text.
encode_utf8(s) == AsTuple([i \in 1..Len(s) |-> Ord(s[i])])

\* b.decode('utf-8'): the text of a sequence of byte values.
decode_utf8(b) == AsTuple([i \in 1..Len(b) |-> Chr(b[i])])

\* The ten decimal digits; DecDigits[d + 1] is the character of digit d.
DecDigits == << "0", "1", "2", "3", "4", "5", "6", "7", "8", "9" >>

IsDigit(ch) == \E i \in 1..10 : DecDigits[i] = ch

DigitValue(ch) == (CHOOSE i \in 1..10 : DecDigits[i] = ch) - 1

\* str(n) for a natural n below 2^31.
RECURSIVE str_nat(_)
str_nat(n) ==
    IF n < 10 THEN << DecDigits[n + 1] >>
    ELSE Append(str_nat(n \div 10), DecDigits[(n % 10) + 1])

\* A digit text filled with zeros on the left to width w.
RECURSIVE zfill(_, _)
zfill(s, w) == IF Len(s) >= w THEN s ELSE zfill(<< "0" >> \o s, w)

\* A faulty str(t) that keeps only the low nine digits of the count, as a
\* fixed-width integer would.
str_int_truncated(t) == str_nat(t[2])

\* str(t) for a millisecond count t = <<hi, lo>> = hi * 10^9 + lo, 0 <= lo < 10^9.
str_int(t) ==
    IF t[1] = 0 THEN str_nat(t[2])
    ELSE str_nat(t[1]) \o zfill(str_nat(t[2]), 9)

(***************************************************************************)
(* Values and dicts                                                        *)
(***************************************************************************)

PyStr(s) == [t |-> "str", v |-> s]
PyInt(n) == [t |-> "int", v |-> n]
PyList(l) == [t |-> "list", v |-> l]
PyDict(d) == [t |-> "dict", v |-> d]
PyBool(b) == [t |-> "bool", v |-> b]
PyNone == [t |-> "none", v |-> 0]

\* The keys of a dict, in insertion order, and as a set.
DictKeys(d) == { d[i][1] : i \in 1..Len(d) }

\* k in d
DictHas(d, k) == \E i \in 1..Len(d) : d[i][1] = k

\* d[k], for a key the dict holds
DictGet(d, k) == d[CHOOSE i \in 1..Len(d) : d[i][1] = k][2]

\* d[k] = v: the value of an existing key is replaced in place, a new key is
\* added at the end.
DictSet(d, k, v) ==
    IF DictHas(d, k)
    THEN AsTuple([i \in 1..Len(d) |-> IF d[i][1] = k THEN << k, v >> ELSE d[i]])
    ELSE Append(d, << k, v >>)

\* bool(x): Python's truth value of a value.
Truthy(x) ==
    CASE x.t = "none" -> FALSE
      [] x.t = "bool" -> x.v
      [] x.t = "int" -> x.v # 0
      [] OTHER -> Len(x.v) > 0

(***************************************************************************)
(* json.dumps and json.loads                                               *)
(***************************************************************************)

\* The JSON text of a str: quoted, with '"' and '\' escaped by a backslash.
RECURSIVE json_escape(_)
json_escape(s) ==
    IF s = << >> THEN << >>
    ELSE (IF s[1] \in { "\"", "\\" } THEN << "\\", s[1] >> ELSE << s[1] >>)
         \o json_escape(Tail(s))

json_string(s) == << "\"" >> \o json_escape(s) \o << "\"" >>

\* json.dumps(x) with the default separators ', ' and ': ', keys in insertion
\* order.
RECURSIVE json_dumps(_)
RECURSIVE json_items(_, _)
RECURSIVE json_members(_, _)
json_items(l, i) ==
    IF i > Len(l) THEN << >>
    ELSE (IF i > 1 THEN << ",", " " >> ELSE << >>)
         \o json_dumps(l[i]) \o json_items(l, i + 1)

json_members(d, i) ==
    IF i > Len(d) THEN << >>
    ELSE (IF i > 1 THEN << ",", " " >> ELSE << >>)
         \o json_string(d[i][1]) \o << ":", " " >> \o json_dumps(d[i][2])
         \o json_members(d, i + 1)

json_dumps(x) ==
    CASE x.t = "str" -> json_string(x.v)
      [] x.t = "int" -> str_nat(x.v)
      [] x.t = "bool" -> IF x.v THEN << "t", "r", "u", "e" >>
                         ELSE << "f", "a", "l", "s", "e" >>
      [] x.t = "none" -> << "n", "u", "l", "l" >>
      [] x.t = "list" -> << "[" >> \o json_items(x.v, 1) \o << "]" >>
      [] x.t = "dict" -> << "{" >> \o json_members(x.v, 1) \o << "}" >>

\* The result of a parse: ok, the value read, and the index after it.
ParseFail == [ok |-> FALSE, v |-> PyNone, i |-> 0]

ParseOk(x, i) == [ok |-> TRUE, v |-> x, i |-> i]

\* The index of the first character of s at or after i that is not a space.
RECURSIVE skip_ws(_, _)
skip_ws(s, i) == IF i <= Len(s) /\ s[i] = " " THEN skip_ws(s, i + 1) ELSE i

\* Whether the word w stands in s at index i.
HasWord(s, i, w) ==
    /\ i + Len(w) - 1 <= Len(s)
    /\ \A k \in 1..Len(w) : s[i + k - 1] = w[k]

\* The characters of a JSON string whose opening quote precedes index i; acc is
\* what was read so far.
RECURSIVE parse_chars(_, _, _)
parse_chars(s, i, acc) ==
    IF i > Len(s) THEN ParseFail
    ELSE IF s[i] = "\"" THEN ParseOk(acc, i + 1)
    ELSE IF s[i] = "\\"
         THEN IF i + 1 <= Len(s) /\ s[i + 1] \in { "\"", "\\" }
              THEN parse_chars(s, i + 2, Append(acc, s[i + 1]))
              ELSE ParseFail
    ELSE parse_chars(s, i + 1, Append(acc, s[i]))

\* The digits of a JSON number from index i on; n is the value read so far.
RECURSIVE parse_digits(_, _, _)
parse_digits(s, i, n) ==
    IF i <= Len(s) /\ IsDigit(s[i])
    THEN parse_digits(s, i + 1, 10 * n + DigitValue(s[i]))
    ELSE ParseOk(PyInt(n), i)

RECURSIVE parse_value(_, _)
RECURSIVE parse_items(_, _, _)
RECURSIVE parse_members(_, _, _)
\* The items of a JSON array after '[' or ','; acc is the list read so far.
parse_items(s, i, acc) ==
    LET x == parse_value(s, i)
        j == skip_ws(s, x.i)
    IN  IF ~x.ok \/ j > Len(s) THEN ParseFail
        ELSE IF s[j] = "," THEN parse_items(s, j + 1, Append(acc, x.v))
        ELSE IF s[j] = "]" THEN ParseOk(PyList(Append(acc, x.v)), j + 1)
        ELSE ParseFail

\* The members of a JSON object after '{' or ','; acc is the dict read so far
\* (a repeated key keeps its last value, as in json.loads).
parse_members(s, i, acc) ==
    LET k0 == skip_ws(s, i)
        key == IF k0 <= Len(s) /\ s[k0] = "\"" THEN parse_chars(s, k0 + 1, << >>)
               ELSE ParseFail
        c == skip_ws(s, key.i)
        x == IF key.ok /\ c <= Len(s) /\ s[c] = ":" THEN parse_value(s, c + 1)
             ELSE ParseFail
        j == skip_ws(s, x.i)
    IN  IF ~x.ok \/ j > Len(s) THEN ParseFail
        ELSE IF s[j] = "," THEN parse_members(s, j + 1, DictSet(acc, key.v, x.v))
        ELSE IF s[j] = "}" THEN ParseOk(PyDict(DictSet(acc, key.v, x.v)), j + 1)
        ELSE ParseFail

\* The JSON value that starts at or after index i of s.
parse_value(s, i) ==
    LET j == skip_ws(s, i)
    IN  IF j > Len(s) THEN ParseFail
        ELSE IF s[j] = "\""
             THEN LET r == parse_chars(s, j + 1, << >>)
                  IN  IF r.ok THEN ParseOk(PyStr(r.v), r.i) ELSE ParseFail
        ELSE IF s[j] = "0" THEN ParseOk(PyInt(0), j + 1)
        ELSE IF IsDigit(s[j]) THEN parse_digits(s, j, 0)
        ELSE IF s[j] = "["
             THEN LET k == skip_ws(s, j + 1)
                  IN  IF k <= Len(s) /\ s[k] = "]" THEN ParseOk(PyList(<< >>), k + 1)
                      ELSE parse_items(s, j + 1, << >>)
        ELSE IF s[j] = "{"
             THEN LET k == skip_ws(s, j + 1)
                  IN  IF k <= Len(s) /\ s[k] = "}" THEN ParseOk(PyDict(<< >>), k + 1)
                      ELSE parse_members(s, j + 1, << >>)
        ELSE IF HasWord(s, j, << "t", "r", "u", "e" >>) THEN ParseOk(PyBool(TRUE), j + 4)
        ELSE IF HasWord(s, j, << "f", "a", "l", "s", "e" >>)
             THEN ParseOk(PyBool(FALSE), j + 5)
        ELSE IF HasWord(s, j, << "n", "u", "l", "l" >>) THEN ParseOk(PyNone, j + 4)
        ELSE ParseFail

\* json.loads(s): ok and the value when s is one JSON value and nothing else;
\* not ok where json.loads raises a JSONDecodeError.
json_loads(s) ==
    LET r == parse_value(s, 1)
    IN  IF r.ok /\ skip_ws(s, r.i) = Len(s) + 1 THEN r ELSE ParseFail

(***************************************************************************)
(* base64 and hmac                                                         *)
(***************************************************************************)

\* The base64 alphabet: B64Alphabet[k + 1] is the character of the sextet k.
B64Alphabet ==
    << "A", "B", "C", "D", "E", "F", "G", "H", "I", "J", "K", "L", "M", "N", "O", "P",
       "Q", "R", "S", "T", "U", "V", "W", "X", "Y", "Z", "a", "b", "c", "d", "e", "f",
       "g", "h", "i", "j", "k", "l", "m", "n", "o", "p", "q", "r", "s", "t", "u", "v",
       "w", "x", "y", "z", "0", "1", "2", "3", "4", "5", "6", "7", "8", "9", "+", "/" >>

\* The sextet of every character of the base64 alphabet.
B64Value ==
    [ch \in { B64Alphabet[k] : k \in 1..64 } |->
        (CHOOSE k \in 1..64 : B64Alphabet[k] = ch) - 1]

\* base64.b64encode(b): every three bytes become four characters; a last group
\* of one or two bytes is filled with '='.
b64encode(b) ==
    LET n == Len(b)
        byte(k) == IF k <= n THEN b[k] ELSE 0
        word(g) == byte(3 * g - 2) * 65536 + byte(3 * g - 1) * 256 + byte(3 * g)
        sextet(g, j) == (word(g) \div (64 ^ (4 - j))) % 64
    IN  AsTuple([i \in 1..(4 * ((n + 2) \div 3)) |->
            LET g == ((i - 1) \div 4) + 1
                j == ((i - 1) % 4) + 1
            IN  IF 3 * g - 3 + j > n + 1 THEN "="
                ELSE B64Alphabet[sextet(g, j) + 1]])

\* base64.b64decode(c), for a text b64encode produced.
b64decode(c) ==
    LET pad == Cardinality({ i \in 1..Len(c) : c[i] = "=" })
        val(i) == IF c[i] = "=" THEN 0
                  ELSE B64Value[c[i]]
        word(g) == val(4 * g - 3) * 262144 + val(4 * g - 2) * 4096
                   + val(4 * g - 1) * 64 + val(4 * g)
    IN  AsTuple([i \in 1..(3 * (Len(c) \div 4) - pad) |->
            LET g == ((i - 1) \div 3) + 1
                j == ((i - 1) % 3) + 1
            IN  (word(g) \div (256 ^ (3 - j))) % 256])

\* hmac.new(key, msg, digestmod).hexdigest(): the digest is a term over the key,
\* the message and the hash; two digests are equal exactly when all three are
\* (the hash is taken to be free of collisions).
hmac_hexdigest(key, msg, digestmod) == [hmac |-> digestmod, key |-> key, msg |-> msg]

(***************************************************************************)
(* The string literals of private_client.py                                *)
(***************************************************************************)

URL_production ==
    << "h", "t", "t", "p", "s", ":", "/", "/", "a", "p", "i", ".", "g", "e", "m",
       "i", "n", "i", ".", "c", "o", "m" >>

URL_sandbox ==
    << "h", "t", "t", "p", "s", ":", "/", "/", "a", "p", "i", ".", "s", "a", "n",
       "d", "b", "o", "x", ".", "g", "e", "m", "i", "n", "i", ".", "c", "o", "m" >>

K_request ==
    << "r", "e", "q", "u", "e", "s", "t" >>

K_nonce ==
    << "n", "o", "n", "c", "e" >>

K_symbol ==
    << "s", "y", "m", "b", "o", "l" >>

K_amount ==
    << "a", "m", "o", "u", "n", "t" >>

K_price ==
    << "p", "r", "i", "c", "e" >>

K_side ==
    << "s", "i", "d", "e" >>

K_options ==
    << "o", "p", "t", "i", "o", "n", "s" >>

K_type ==
    << "t", "y", "p", "e" >>

K_order_id ==
    << "o", "r", "d", "e", "r", "_", "i", "d" >>

K_limit_trades ==
    << "l", "i", "m", "i", "t", "_", "t", "r", "a", "d", "e", "s" >>

K_timestamp ==
    << "t", "i", "m", "e", "s", "t", "a", "m", "p" >>

K_limit_transfers ==
    << "l", "i", "m", "i", "t", "_", "t", "r", "a", "n", "s", "f", "e", "r", "s" >>

K_label ==
    << "l", "a", "b", "e", "l" >>

K_address ==
    << "a", "d", "d", "r", "e", "s", "s" >>

V_exchange_limit ==
    << "e", "x", "c", "h", "a", "n", "g", "e", " ", "l", "i", "m", "i", "t" >>

V_immediate_or_cancel ==
    << "i", "m", "m", "e", "d", "i", "a", "t", "e", "-", "o", "r", "-", "c", "a",
       "n", "c", "e", "l" >>

PATH_order_new ==
    << "/", "v", "1", "/", "o", "r", "d", "e", "r", "/", "n", "e", "w" >>

PATH_order_cancel ==
    << "/", "v", "1", "/", "o", "r", "d", "e", "r", "/", "c", "a", "n", "c", "e",
       "l" >>

PATH_order_cancel_session ==
    << "/", "v", "1", "/", "o", "r", "d", "e", "r", "/", "c", "a", "n", "c", "e",
       "l", "/", "s", "e", "s", "s", "i", "o", "n" >>

PATH_order_cancel_all ==
    << "/", "v", "1", "/", "o", "r", "d", "e", "r", "/", "c", "a", "n", "c", "e",
       "l", "/", "a", "l", "l" >>

PATH_order_status ==
    << "/", "v", "1", "/", "o", "r", "d", "e", "r", "/", "s", "t", "a", "t", "u",
       "s" >>

PATH_orders ==
    << "/", "v", "1", "/", "o", "r", "d", "e", "r", "s" >>

PATH_mytrades ==
    << "/", "v", "1", "/", "m", "y", "t", "r", "a", "d", "e", "s" >>

PATH_tradevolume ==
    << "/", "v", "1", "/", "t", "r", "a", "d", "e", "v", "o", "l", "u", "m", "e" >>

PATH_balances ==
    << "/", "v", "1", "/", "b", "a", "l", "a", "n", "c", "e", "s" >>

PATH_transfers ==
    << "/", "v", "1", "/", "t", "r", "a", "n", "s", "f", "e", "r", "s" >>

PATH_heartbeat ==
    << "/", "v", "1", "/", "h", "e", "a", "r", "t", "b", "e", "a", "t" >>

PATH_deposit_prefix ==
    << "/", "v", "1", "/", "d", "e", "p", "o", "s", "i", "t", "/" >>

PATH_deposit_suffix ==
    << "/", "n", "e", "w", "A", "d", "d", "r", "e", "s", "s" >>

PATH_withdraw_prefix ==
    << "/", "v", "1", "/", "w", "i", "t", "h", "d", "r", "a", "w", "/" >>

H_content_type ==
    << "C", "o", "n", "t", "e", "n", "t", "-", "T", "y", "p", "e" >>

H_content_length ==
    << "C", "o", "n", "t", "e", "n", "t", "-", "L", "e", "n", "g", "t", "h" >>

H_apikey ==
    << "X", "-", "G", "E", "M", "I", "N", "I", "-", "A", "P", "I", "K", "E", "Y" >>

H_payload ==
    << "X", "-", "G", "E", "M", "I", "N", "I", "-", "P", "A", "Y", "L", "O", "A",
       "D" >>

H_signature ==
    << "X", "-", "G", "E", "M", "I", "N", "I", "-", "S", "I", "G", "N", "A", "T",
       "U", "R", "E" >>

H_cache_control ==
    << "C", "a", "c", "h", "e", "-", "C", "o", "n", "t", "r", "o", "l" >>

V_text_plain ==
    << "t", "e", "x", "t", "/", "p", "l", "a", "i", "n" >>

V_zero ==
    << "0" >>

V_no_cache ==
    << "n", "o", "-", "c", "a", "c", "h", "e" >>

(***************************************************************************)
(* The values the callers, the clock and the server supply                 *)
(***************************************************************************)

\* The credential pair the client is built with.
IN_public_key ==
    << "p", "u", "b", "-", "k", "e", "y" >>

IN_private_key ==
    << "s", "e", "c", "-", "k", "e", "y" >>

\* The arguments callers pass.
IN_btcusd ==
    << "b", "t", "c", "u", "s", "d" >>

IN_amount ==
    << "0", ".", "0", "2" >>

IN_price ==
    << "6", "4", "0", "0", ".", "2", "8" >>

IN_buy ==
    << "b", "u", "y" >>

IN_order_id ==
    << "8", "6", "4", "0", "3", "5", "1", "0" >>

IN_btc ==
    << "b", "t", "c" >>

IN_vault ==
    << "v", "a", "u", "l", "t" >>

IN_quoted ==
    << "a", "\"", "b", "\\" >>

IN_address ==
    << "m", "q", "j", "v", "C", "t", "t", "4" >>

IN_maker_or_cancel ==
    << "m", "a", "k", "e", "r", "-", "o", "r", "-", "c", "a", "n", "c", "e", "l" >>

\* The bodies the server answers with.
K_result ==
    << "r", "e", "s", "u", "l", "t" >>

V_error ==
    << "e", "r", "r", "o", "r" >>

K_reason ==
    << "r", "e", "a", "s", "o", "n" >>

V_invalid_nonce ==
    << "I", "n", "v", "a", "l", "i", "d", "N", "o", "n", "c", "e" >>

BODY_html ==
    << "<", "h", "t", "m", "l", ">", "5", "0", "2", "<", "/", "h", "t", "m", "l",
       ">" >>

\* The clock readings int(time.time() * 1000) may return, as <<hi, lo>> pairs:
\* 10^18 (19 digits), 10^18 - 1 (18 digits), 10^13 (14 digits), 10^13 - 1 and
\* 1650000000123 (13 digits), 0 and 2 * 10^18.  The model reads the first
\* NumReadings of them.
ClockReadings ==
    << << 1000000000, 0 >>, << 999999999, 999999999 >>, << 10000, 0 >>,
       << 9999, 999999999 >>, << 1650, 123 >>, << 0, 0 >>, << 2000000000, 0 >> >>

NumReadings == 5

Readings == { ClockReadings[i] : i \in 1..NumReadings }

\* t1 <= t2 for two clock readings.
TLeq(t1, t2) == t1[1] < t2[1] \/ (t1[1] = t2[1] /\ t1[2] <= t2[2])

\* The JSON values the server answers with (the model has one, an error object;
\* the server sends it with any status code), beside a body that is not JSON.
ServedValues ==
    { PyDict(<< << K_result, PyStr(V_error) >>, << K_reason, PyStr(V_invalid_nonce) >> >>) }

StatusCodes == { 200, 400, 500 }

\* What requests.post can do: answer with a status code and a body, or raise a
\* transport error.
Responses ==
    [kind : { "response" }, status_code : StatusCodes,
     text : { json_dumps(x) : x \in ServedValues }]
    \cup [kind : { "response" }, status_code : { 200, 500 }, text : { BODY_html }]

TransportError == [kind |-> "error", status_code |-> 0, text |-> << >>]

\* The keyword arguments a caller adds to a call.
NoKwargs == << >>

ReturnStatus(b) == << << "return_status", PyBool(b) >> >>

(***************************************************************************)
(* State                                                                   *)
(***************************************************************************)

VARIABLES
    client,          \* the PrivateClient: _public_key, _private_key, _base_url
    caller_payload,  \* the mapping object a caller owns and passes to api_query
    local_payload,   \* per call: the mapping object made inside the call
    calls,           \* per call: where it stands in api_query, and its locals
    now,             \* the last reading of the millisecond clock
    last_sent        \* the clock reading and nonce of the request sent by the
                     \* latest call that has ended (empty before there is one)

vars == << client, caller_payload, local_payload, calls, now, last_sent >>

\* The calls that can be in progress at once.
Calls == { 1, 2 }

TIME_LENGTH == 18

\* A call that has not started: no locals are bound.
Idle ==
    [pc |-> "idle", entry |-> "", args |-> << >>, method |-> << >>,
     payload |-> "None", kwargs |-> NoKwargs, P0 |-> << >>, t |-> << 0, 0 >>,
     request_url |-> << >>, b64_payload |-> << >>, signature |-> PyNone,
     headers |-> << >>, r |-> TransportError, result |-> PyNone, error |-> "",
     sent |-> << >>]

\* The mapping object a call's payload variable refers to.
Payload(c) ==
    IF calls[c].payload = "caller" THEN caller_payload ELSE local_payload[c]

\* PrivateClient.__init__(public_api_key, private_api_key, sandbox)
PrivateClient_init(public_api_key, private_api_key, sandbox) ==
    [public_key |-> public_api_key,
     private_key |-> private_api_key,
     base_url |-> IF sandbox THEN URL_sandbox ELSE URL_production]

\* A client built for production (sandbox = False); no call has been made.
Init ==
    /\ client = PrivateClient_init(IN_public_key, IN_private_key, FALSE)
    /\ caller_payload = << << K_symbol, PyStr(IN_btcusd) >> >>
    /\ local_payload = [c \in Calls |-> << >>]
    /\ calls = [c \in Calls |-> Idle]
    /\ now = << 0, 0 >>
    /\ last_sent = << >>

(***************************************************************************)
(* api_query, the signed-request engine, statement by statement            *)
(***************************************************************************)

\* Lines 28-31: the call is bound; a payload of None becomes a new empty dict;
\* request_url is built.  locals is local_payload with the dict a typed method
\* made for this call, if one did.
api_query_begin(c, entry, args, method, payload, kwargs, locals) ==
    /\ local_payload' = IF payload = "None" THEN [locals EXCEPT ![c] = << >>] ELSE locals
    /\ calls' = [calls EXCEPT ![c] =
          [Idle EXCEPT !.pc = "L33", !.entry = entry, !.args = args,
                       !.method = method,
                       !.payload = IF payload = "None" THEN "local" ELSE payload,
                       !.kwargs = kwargs,
                       !.P0 = IF payload = "caller" THEN caller_payload
                              ELSE IF payload = "local" THEN locals[c] ELSE << >>,
                       !.request_url = client.base_url \o method]]
    /\ UNCHANGED << client, caller_payload, now, last_sent >>

\* A caller calls api_query itself.
api_query(c, method, payload, kwargs) ==
    /\ calls[c].pc = "idle"
    /\ api_query_begin(c, "api_query", << >>, method, payload, kwargs, local_payload)

\* A faulty store that rebinds the payload to a mapping holding k alone.
StorePayloadAlone(c, k, v) ==
    IF calls[c].payload = "caller"
    THEN /\ caller_payload' = << << k, v >> >>
         /\ UNCHANGED local_payload
    ELSE /\ local_payload' = [local_payload EXCEPT ![c] = << << k, v >> >>]
         /\ UNCHANGED caller_payload

\* payload[k] = v on the mapping object the call's payload refers to.
StorePayload(c, k, v) ==
    IF calls[c].payload = "caller"
    THEN /\ caller_payload' = DictSet(caller_payload, k, v)
         /\ UNCHANGED local_payload
    ELSE /\ local_payload' = [local_payload EXCEPT ![c] = DictSet(@, k, v)]
         /\ UNCHANGED caller_payload

\* Line 33: payload['request'] = method
SetRequest(c) ==
    /\ calls[c].pc = "L33"
    /\ StorePayload(c, K_request, PyStr(calls[c].method))
    /\ calls' = [calls EXCEPT ![c].pc = "L34"]
    /\ UNCHANGED << client, now, last_sent >>

\* Line 34: payload['nonce'] = str(int(time.time() * 1000)); the clock does not
\* run backwards.
SetNonce(c, t) ==
    /\ calls[c].pc = "L34"
    /\ TLeq(now, t)
    /\ now' = t
    /\ StorePayload(c, K_nonce, PyStr(str_int(t)))
    /\ calls' = [calls EXCEPT ![c].pc = "L35", ![c].t = t]
    /\ UNCHANGED << client, last_sent >>

\* A faulty padding loop that puts the zeros before the digits.
PadNonceLeft(c) ==
    /\ calls[c].pc = "L35"
    /\ IF Len(DictGet(Payload(c), K_nonce).v) < TIME_LENGTH
       THEN /\ IF calls[c].payload = "caller"
               THEN /\ caller_payload' = DictSet(caller_payload, K_nonce,
                          PyStr(<< "0" >> \o DictGet(caller_payload, K_nonce).v))
                    /\ UNCHANGED local_payload
               ELSE /\ local_payload' = [local_payload EXCEPT ![c] =
                          DictSet(@, K_nonce, PyStr(<< "0" >> \o DictGet(@, K_nonce).v))]
                    /\ UNCHANGED caller_payload
            /\ UNCHANGED calls
       ELSE /\ calls' = [calls EXCEPT ![c].pc = "L37"]
            /\ UNCHANGED << caller_payload, local_payload >>
    /\ UNCHANGED << client, now, last_sent >>

\* Lines 35-36: while len(payload['nonce']) < TIME_LENGTH: payload['nonce'] += "0"
\* (one turn of the loop, or its end).
PadNonce(c) ==
    /\ calls[c].pc = "L35"
    /\ IF Len(DictGet(Payload(c), K_nonce).v) < TIME_LENGTH
       THEN /\ StorePayload(c, K_nonce,
                            PyStr(Append(DictGet(Payload(c), K_nonce).v, "0")))
            /\ UNCHANGED calls
       ELSE /\ calls' = [calls EXCEPT ![c].pc = "L37"]
            /\ UNCHANGED << caller_payload, local_payload >>
    /\ UNCHANGED << client, now, last_sent >>

\* Line 37: b64_payload = base64.b64encode(json.dumps(payload).encode('utf-8'))
EncodePayload(payload) ==
    b64encode(encode_utf8(json_dumps(PyDict(payload))))


\* A faulty signature, keyed by the public key.
SignatureWithPublicKey(b64_payload) ==
    hmac_hexdigest(encode_utf8(client.public_key), b64_payload, "sha384")

\* Line 38: signature = hmac.new(self._private_key.encode('utf-8'), b64_payload,
\*                               hashlib.sha384).hexdigest()
Signature(b64_payload) ==
    hmac_hexdigest(encode_utf8(client.private_key), b64_payload, "sha384")

\* Lines 40-47: the headers of the request.
Headers(b64_payload, signature) ==
    << << H_content_type, V_text_plain >>,
       << H_content_length, V_zero >>,
       << H_apikey, client.public_key >>,
       << H_payload, b64_payload >>,
       << H_signature, signature >>,
       << H_cache_control, V_no_cache >> >>

\* Lines 37-47: the payload is read once, when json.dumps serializes it; the
\* encoding, the signature and the headers are locals of the call.
Sign(c) ==
    /\ calls[c].pc = "L37"
    /\ \E b64_payload \in { EncodePayload(Payload(c)) } :
          \E signature \in { Signature(b64_payload) } :
             calls' = [calls EXCEPT ![c] =
                [@ EXCEPT !.pc = "L49",
                          !.b64_payload = b64_payload,
                          !.signature = signature,
                          !.headers = Headers(b64_payload, signature)]]
    /\ UNCHANGED << client, caller_payload, local_payload, now, last_sent >>

\* The payload a request carries: its X-GEMINI-PAYLOAD header base64-decoded,
\* UTF-8-decoded and JSON-parsed.
DecodedPayload(req) ==
    json_loads(decode_utf8(b64decode(DictGet(req.headers, H_payload))))

\* The nonce a request carries in its payload.
SentNonce(req) == DictGet(DecodedPayload(req).v.v, K_nonce).v

\* A faulty POST that sends the request again when the transport fails.
PostWithRetry(c, outcome) ==
    LET req == [url |-> calls[c].request_url, headers |-> calls[c].headers]
    IN  /\ calls[c].pc = "L49"
        /\ calls' = [calls EXCEPT
              ![c].sent = Append(@, req),
              ![c].r = outcome,
              ![c].pc = IF outcome.kind = "error" THEN "L49" ELSE "L50"]
        /\ UNCHANGED << client, caller_payload, local_payload, now, last_sent >>

\* Line 49: r = requests.post(request_url, headers=headers).  The request is
\* sent once; the transport answers with a response or raises its error, which
\* api_query does not catch.
Post(c, outcome) ==
    LET req == [url |-> calls[c].request_url, headers |-> calls[c].headers]
    IN  /\ calls[c].pc = "L49"
        /\ calls' = [calls EXCEPT
              ![c].sent = Append(@, req),
              ![c].r = outcome,
              ![c].pc = IF outcome.kind = "error" THEN "raised" ELSE "L50",
              ![c].error = IF outcome.kind = "error" THEN "ConnectionError" ELSE ""]
        /\ UNCHANGED << client, caller_payload, local_payload, now, last_sent >>

\* A faulty return that never pairs the body with the status code.
ReturnValueBodyOnly(r, kwargs) == json_loads(r.text).v

\* A faulty return that raises for a status code of 400 or more instead of
\* parsing the body.
ReturnChecked(c) ==
    /\ calls[c].pc = "L50"
    /\ calls' = [calls EXCEPT ![c] =
          IF calls[c].r.status_code >= 400
          THEN [@ EXCEPT !.pc = "raised", !.error = "HTTPError"]
          ELSE IF json_loads(calls[c].r.text).ok
               THEN [@ EXCEPT !.pc = "returned",
                              !.result = json_loads(calls[c].r.text).v]
               ELSE [@ EXCEPT !.pc = "raised", !.error = "JSONDecodeError"]]
    /\ UNCHANGED << client, caller_payload, local_payload, now, last_sent >>

\* Lines 50-52: r.json() parses the body, whatever the status code, and raises
\* when the body is not JSON; with a true return_status among the keyword
\* arguments the status code is returned with it.
ReturnValue(r, kwargs) ==
    IF DictHas(kwargs, "return_status") /\ Truthy(DictGet(kwargs, "return_status"))
    THEN [t |-> "tuple", v |-> << json_loads(r.text).v, PyInt(r.status_code) >>]
    ELSE json_loads(r.text).v

Return(c) ==
    /\ calls[c].pc = "L50"
    /\ calls' = [calls EXCEPT ![c] =
          IF json_loads(calls[c].r.text).ok
          THEN [@ EXCEPT !.pc = "returned",
                         !.result = ReturnValue(calls[c].r, calls[c].kwargs)]
          ELSE [@ EXCEPT !.pc = "raised", !.error = "JSONDecodeError"]]
    /\ UNCHANGED << client, caller_payload, local_payload, now, last_sent >>

\* The caller has the call's result or its exception; the frame of the call and
\* the mapping made inside it are gone.  What stays is the network's record of
\* the request, if the call sent one.
Finish(c) ==
    /\ calls[c].pc \in { "returned", "raised" }
    /\ calls' = [calls EXCEPT ![c] = Idle]
    /\ local_payload' = [local_payload EXCEPT ![c] = << >>]
    /\ last_sent' = IF calls[c].sent = << >> THEN last_sent
                    ELSE << [t |-> calls[c].t,
                             nonce |-> SentNonce(calls[c].sent[Len(calls[c].sent)])] >>
    /\ UNCHANGED << client, caller_payload, now >>

(***************************************************************************)
(* The typed endpoint methods                                              *)
(***************************************************************************)

\* A call with a keyword argument the method's signature does not take: Python
\* raises TypeError while binding the arguments, before the method's body runs.
RejectCall(c, entry, kwargs) ==
    /\ calls' = [calls EXCEPT ![c] =
          [Idle EXCEPT !.pc = "raised", !.entry = entry, !.kwargs = kwargs,
                       !.error = "TypeError"]]
    /\ UNCHANGED << client, caller_payload, local_payload, now, last_sent >>

\* A typed method without **kwargs in its signature: it makes its payload (None
\* when it passes none) and calls self.api_query(method, payload).
Delegate(c, entry, args, method, payload, kwargs) ==
    IF kwargs # NoKwargs THEN RejectCall(c, entry, kwargs)
    ELSE IF payload.t = "none"
         THEN api_query_begin(c, entry, args, method, "None", NoKwargs, local_payload)
         ELSE api_query_begin(c, entry, args, method, "local", NoKwargs,
                              [local_payload EXCEPT ![c] = payload.v])

\* A typed method with **kwargs: self.api_query(method, payload, **kwargs).
DelegateKwargs(c, entry, args, method, payload, kwargs) ==
    api_query_begin(c, entry, args, method, "local", kwargs,
                    [local_payload EXCEPT ![c] = payload.v])

\* Lines 55-101
new_order(c, symbol, amount, price, side, options, kwargs) ==
    /\ calls[c].pc = "idle"
    /\ Delegate(c, "new_order", << >>, PATH_order_new,
                PyDict(<< << K_symbol, PyStr(symbol) >>,
                          << K_amount, PyStr(amount) >>,
                          << K_price, PyStr(price) >>,
                          << K_side, PyStr(side) >>,
                          << K_options, options >>,
                          << K_type, PyStr(V_exchange_limit) >> >>),
                kwargs)

\* Lines 103-137
cancel_order(c, order_id, kwargs) ==
    /\ calls[c].pc = "idle"
    /\ Delegate(c, "cancel_order", << >>, PATH_order_cancel,
                PyDict(<< << K_order_id, PyStr(order_id) >> >>), kwargs)

\* Lines 139-154
cancel_session_orders(c, kwargs) ==
    /\ calls[c].pc = "idle"
    /\ Delegate(c, "cancel_session_orders", << >>, PATH_order_cancel_session, PyNone, kwargs)

\* Lines 156-162
cancel_all_orders(c, kwargs) ==
    /\ calls[c].pc = "idle"
    /\ Delegate(c, "cancel_all_orders", << >>, PATH_order_cancel_all, PyNone, kwargs)

\* Lines 165-203
status_of_order(c, order_id, kwargs) ==
    /\ calls[c].pc = "idle"
    /\ Delegate(c, "status_of_order", << >>, PATH_order_status,
                PyDict(<< << K_order_id, PyStr(order_id) >> >>), kwargs)

\* Lines 205-213
active_orders(c, kwargs) ==
    /\ calls[c].pc = "idle"
    /\ Delegate(c, "active_orders", << >>, PATH_orders, PyNone, kwargs)

\* Lines 215-233
get_past_trades(c, symbol, limit_trades, timestamp, kwargs) ==
    /\ calls[c].pc = "idle"
    /\ DelegateKwargs(c, "get_past_trades", << >>, PATH_mytrades,
                      PyDict(<< << K_symbol, PyStr(symbol) >>,
                                << K_limit_trades,
                                   IF limit_trades.t = "none" THEN PyInt(500)
                                   ELSE limit_trades >>,
                                << K_timestamp, timestamp >> >>),
                      kwargs)

\* Lines 235-243
get_trade_volume(c, kwargs) ==
    /\ calls[c].pc = "idle"
    /\ Delegate(c, "get_trade_volume", << >>, PATH_tradevolume, PyNone, kwargs)

\* Lines 246-269
get_balance(c, kwargs) ==
    /\ calls[c].pc = "idle"
    /\ Delegate(c, "get_balance", << >>, PATH_balances, PyNone, kwargs)

\* Lines 271-346
get_transfers(c, timestamp, limit_transfers, kwargs) ==
    /\ calls[c].pc = "idle"
    /\ DelegateKwargs(c, "get_transfers", << >>, PATH_transfers,
                      PyDict(<< << K_timestamp, timestamp >>,
                                << K_limit_transfers, limit_transfers >> >>),
                      kwargs)

\* A faulty create_deposit_address that tests the label against None.
create_deposit_address_not_none(c, currency, label, kwargs) ==
    /\ calls[c].pc = "idle"
    /\ Delegate(c, "create_deposit_address", << << "label", label >> >>,
                PATH_deposit_prefix \o currency \o PATH_deposit_suffix,
                IF label.t # "none" THEN PyDict(<< << K_label, label >> >>)
                ELSE PyDict(<< >>),
                kwargs)

\* Lines 348-365: the label is put in the payload when it is truthy.
create_deposit_address(c, currency, label, kwargs) ==
    /\ calls[c].pc = "idle"
    /\ Delegate(c, "create_deposit_address", << << "label", label >> >>,
                PATH_deposit_prefix \o currency \o PATH_deposit_suffix,
                IF Truthy(label) THEN PyDict(<< << K_label, label >> >>)
                ELSE PyDict(<< >>),
                kwargs)

\* Lines 367-389
withdraw_to_address(c, currency, address, amount, kwargs) ==
    /\ calls[c].pc = "idle"
    /\ Delegate(c, "withdraw_to_address", << >>, PATH_withdraw_prefix \o currency,
                PyDict(<< << K_address, PyStr(address) >>,
                          << K_amount, PyStr(amount) >> >>),
                kwargs)

\* Lines 392-396
revive_hearbeat(c, kwargs) ==
    /\ calls[c].pc = "idle"
    /\ Delegate(c, "revive_hearbeat", << >>, PATH_heartbeat, PyNone, kwargs)

(***************************************************************************)
(* The callers                                                             *)
(***************************************************************************)

\* The keyword arguments callers add: none, or return_status.
KwargsGiven == { NoKwargs, ReturnStatus(TRUE), ReturnStatus(FALSE) }

\* The labels callers give create_deposit_address: none, an empty one, others.
LabelsGiven == { PyNone, PyStr(<< >>), PyStr(IN_vault), PyStr(IN_quoted) }

\* The options callers give new_order: the default list, or their own.
OptionsGiven ==
    { PyList(<< PyStr(V_immediate_or_cancel) >>), PyList(<< PyStr(IN_maker_or_cancel) >>) }

\* The limit_trades callers give get_past_trades: none, or a number.
LimitsGiven == { PyNone, PyInt(10) }

\* A caller starts call c: one of the typed methods, or api_query itself on a
\* payload of None or on the mapping object the caller owns.  K, O, L and T are
\* the keyword arguments, options, labels and limit_trades callers choose from.
Enter(c, K, O, L, T) ==
    \/ \E kwargs \in K, payload \in { "None", "caller" } :
          api_query(c, PATH_orders, payload, kwargs)
    \/ \E kwargs \in K, options \in O :
          new_order(c, IN_btcusd, IN_amount, IN_price, IN_buy, options, kwargs)
    \/ \E kwargs \in K : cancel_order(c, IN_order_id, kwargs)
    \/ \E kwargs \in K : cancel_session_orders(c, kwargs)
    \/ \E kwargs \in K : cancel_all_orders(c, kwargs)
    \/ \E kwargs \in K : status_of_order(c, IN_order_id, kwargs)
    \/ \E kwargs \in K : active_orders(c, kwargs)
    \/ \E kwargs \in K, limit_trades \in T :
          get_past_trades(c, IN_btcusd, limit_trades, PyInt(0), kwargs)
    \/ \E kwargs \in K : get_trade_volume(c, kwargs)
    \/ \E kwargs \in K : get_balance(c, kwargs)
    \/ \E kwargs \in K : get_transfers(c, PyInt(0), PyInt(50), kwargs)
    \/ \E kwargs \in K, label \in L : create_deposit_address(c, IN_btc, label, kwargs)
    \/ \E kwargs \in K : withdraw_to_address(c, IN_btc, IN_address, IN_amount, kwargs)
    \/ \E kwargs \in K : revive_hearbeat(c, kwargs)

\* Call c takes its next step through api_query; R are the clock readings and
\* O the outcomes of the POST.
Engine(c, R, O) ==
    \/ SetRequest(c)
    \/ \E t \in R : SetNonce(c, t)
    \/ PadNonce(c)
    \/ Sign(c)
    \/ \E outcome \in O : Post(c, outcome)
    \/ Return(c)

\* One caller: a call starts when the one before it has ended.
Next ==
    \/ Enter(1, KwargsGiven, OptionsGiven, LabelsGiven, LimitsGiven)
    \/ Engine(1, Readings, Responses \cup { TransportError })
    \/ Finish(1)

Spec == Init /\ [][Next]_vars

\* Two callers share the client and the caller's mapping object: each makes one
\* call, and the two calls run at once, interleaved statement by statement.
NextConc ==
    \E c \in Calls :
        \/ Enter(c, { NoKwargs }, { PyList(<< PyStr(V_immediate_or_cancel) >>) },
                 { PyStr(IN_vault) }, { PyNone })
        \/ Engine(c, { ClockReadings[2], ClockReadings[3] },
                  { [kind |-> "response", status_code |-> 200, text |-> json_dumps(x)] :
                       x \in ServedValues })

SpecConc == Init /\ [][NextConc]_vars

(***************************************************************************)
(* What the properties below speak of                                      *)
(***************************************************************************)

\* Call c has ended: it returned or raised.
Ended(c) == calls[c].pc \in { "returned", "raised" }

\* Call c has sent a request, and the request it sent last.
HasSent(c) == calls[c].sent # << >>

LastRequest(c) == calls[c].sent[Len(calls[c].sent)]

\* The typed endpoint methods, and those of them whose signature has **kwargs.
TypedMethods ==
    { "new_order", "cancel_order", "cancel_session_orders", "cancel_all_orders",
      "status_of_order", "active_orders", "get_past_trades", "get_trade_volume",
      "get_balance", "get_transfers", "create_deposit_address", "withdraw_to_address",
      "revive_hearbeat" }

KwargsMethods == { "get_past_trades", "get_transfers" }

\* The caller asked for the status code: return_status is given and true.
WantsStatus(c) ==
    /\ DictHas(calls[c].kwargs, "return_status")
    /\ Truthy(DictGet(calls[c].kwargs, "return_status"))

\* s is made of the character ch alone.
OnlyChar(s, ch) == \A i \in 1..Len(s) : s[i] = ch

\* s starts with p.
StartsWith(s, p) == Len(p) <= Len(s) /\ SubSeq(s, 1, Len(p)) = p

\* The digits of a digit text without its leading zeros.
RECURSIVE StripZeros(_)
StripZeros(s) == IF Len(s) > 1 /\ s[1] = "0" THEN StripZeros(Tail(s)) ELSE s

\* int(a) <= int(b) for two digit texts.
NumLeq(a, b) ==
    LET x == StripZeros(a)
        y == StripZeros(b)
    IN  \/ Len(x) < Len(y)
        \/ /\ Len(x) = Len(y)
           /\ \/ x = y
              \/ \E i \in 1..Len(x) :
                    /\ SubSeq(x, 1, i - 1) = SubSeq(y, 1, i - 1)
                    /\ DigitValue(x[i]) < DigitValue(y[i])

\* The number of decimal digits of a clock reading t = <<hi, lo>>.
NumDigits(t) == IF t[1] = 0 THEN Len(str_nat(t[2])) ELSE Len(str_nat(t[1])) + 9

(***************************************************************************)
(* C1 (confirmed).  In every request api_query sends, X-GEMINI-SIGNATURE   *)
(* is the HMAC-SHA384 hex digest, keyed by the UTF-8 bytes of the client's *)
(* private key and not of its public key, of exactly the bytes sent in the *)
(* X-GEMINI-PAYLOAD header of the same request, and X-GEMINI-APIKEY is the *)
(* client's public key.                                                    *)
(***************************************************************************)
C1_SignatureOverSentPayload ==
    \A c \in Calls : \A k \in 1..Len(calls[c].sent) :
        \A req \in { calls[c].sent[k] } :
            /\ DictGet(req.headers, H_signature)
                  = hmac_hexdigest(encode_utf8(IN_private_key),
                                   DictGet(req.headers, H_payload), "sha384")
            /\ DictGet(req.headers, H_signature).key # encode_utf8(IN_public_key)
            /\ DictGet(req.headers, H_apikey) = IN_public_key

\* A request has been sent, with a payload in its header.
C1_Witness ==
    \E c \in Calls : HasSent(c) /\ Len(DictGet(LastRequest(c).headers, H_payload)) > 0

(***************************************************************************)
(* C2.  The payload a request carries, against the mapping P the call was  *)
(* given (P0) and its path.                                                *)
(***************************************************************************)

\* What api_query makes of the clock reading t: its digits, then zeros up to
\* 18 characters.
RECURSIVE PadTo18(_)
PadTo18(s) == IF Len(s) >= 18 THEN s ELSE PadTo18(Append(s, "0"))

ExpectedNonce(t) == PadTo18(str_int(t))

\* D holds request = the path of call c and nonce = the nonce made for call c.
HasInjected(c, D) ==
    /\ DictHas(D, K_request) /\ DictGet(D, K_request) = PyStr(calls[c].method)
    /\ DictHas(D, K_nonce) /\ DictGet(D, K_nonce) = PyStr(ExpectedNonce(calls[c].t))

\* C2 as claimed: the decoded payload is P plus request and nonce, and every
\* field of P, a request or nonce field included, is in it unchanged.
C2_Original ==
    \A c \in Calls : HasSent(c) =>
        \A R \in { DecodedPayload(LastRequest(c)) } :
            /\ R.ok /\ R.v.t = "dict"
            /\ DictKeys(R.v.v) = DictKeys(calls[c].P0) \cup { K_request, K_nonce }
            /\ HasInjected(c, R.v.v)
            /\ \A key \in DictKeys(calls[c].P0) :
                  DictGet(R.v.v, key) = DictGet(calls[c].P0, key)

\* C2 (corrected).  The decoded payload is P with request set to the path and
\* nonce set to the generated nonce, which replace a request or nonce P
\* already held; every other field of P is in it unchanged, and it has no
\* other field.
C2_PayloadRoundTrip ==
    \A c \in Calls : HasSent(c) =>
        \A R \in { DecodedPayload(LastRequest(c)) } :
            /\ R.ok /\ R.v.t = "dict"
            /\ DictKeys(R.v.v) = DictKeys(calls[c].P0) \cup { K_request, K_nonce }
            /\ HasInjected(c, R.v.v)
            /\ \A key \in DictKeys(calls[c].P0) \ { K_request, K_nonce } :
                  DictGet(R.v.v, key) = DictGet(calls[c].P0, key)

\* A request was sent for a mapping that already held a nonce, another one
\* than the call made, and a field of its own.
C2_Witness ==
    \E c \in Calls :
        /\ HasSent(c)
        /\ DictHas(calls[c].P0, K_nonce) /\ DictHas(calls[c].P0, K_symbol)
        /\ DictGet(calls[c].P0, K_nonce) # PyStr(ExpectedNonce(calls[c].t))

(***************************************************************************)
(* C3.  The nonce in the payload of a request, against the clock reading t *)
(* of the call.                                                            *)
(***************************************************************************)

\* The nonce is the digits of t followed by zeros alone.
DigitsThenZeros(t, nonce) ==
    /\ StartsWith(nonce, str_int(t))
    /\ OnlyChar(SubSeq(nonce, Len(str_int(t)) + 1, Len(nonce)), "0")

\* C3 as claimed: for every reading the nonce has exactly 18 characters.
C3_Original ==
    \A c \in Calls : HasSent(c) =>
        \A nonce \in { SentNonce(LastRequest(c)) } :
            /\ Len(nonce) = 18
            /\ DigitsThenZeros(calls[c].t, nonce)

\* C3 (corrected).  The nonce is the decimal digits of t followed only by '0'
\* characters, and has exactly 18 characters when t has at most 18 digits
\* (t < 10^18); a reading of more digits is not cut, and its nonce is its
\* digits alone.
C3_NonceLength ==
    \A c \in Calls : HasSent(c) =>
        \A nonce \in { SentNonce(LastRequest(c)) } :
            /\ DigitsThenZeros(calls[c].t, nonce)
            /\ NumDigits(calls[c].t) <= 18 => Len(nonce) = 18
            /\ NumDigits(calls[c].t) > 18 => nonce = str_int(calls[c].t)

\* A request was sent whose nonce was filled with zeros from fewer digits.
C3_Witness ==
    \E c \in Calls :
        /\ HasSent(c)
        /\ NumDigits(calls[c].t) < 18
        /\ Len(SentNonce(LastRequest(c))) = 18

(***************************************************************************)
(* C4.  What a typed endpoint method gives back with and without           *)
(* return_status, for a response whose body is JSON.                       *)
(***************************************************************************)

\* The call got its response and parsing the body did not fail, or never got
\* that far for another reason than the transport or the parser.
NoTransportOrParseError(c) ==
    calls[c].error \notin { "ConnectionError", "JSONDecodeError" }

\* The result of call c is the pair (parsed body, integer status code).
ReturnedPair(c) ==
    /\ calls[c].pc = "returned"
    /\ calls[c].result.t = "tuple"
    /\ Len(calls[c].result.v) = 2
    /\ calls[c].result.v[1] = json_loads(calls[c].r.text).v
    /\ calls[c].result.v[2] = PyInt(calls[c].r.status_code)

\* The result of call c is the parsed body alone.
ReturnedBody(c) ==
    /\ calls[c].pc = "returned"
    /\ calls[c].result.t # "tuple"
    /\ calls[c].result = json_loads(calls[c].r.text).v

\* C4 as claimed: every typed method called with return_status=True returns
\* the pair, and called without it returns the body alone.
C4_Original ==
    \A c \in Calls :
        (calls[c].entry \in TypedMethods /\ Ended(c) /\ NoTransportOrParseError(c)) =>
            /\ calls[c].kwargs = ReturnStatus(TRUE) => ReturnedPair(c)
            /\ calls[c].kwargs = NoKwargs => ReturnedBody(c)

\* C4 (corrected).  get_past_trades and get_transfers, the two typed methods
\* that take keyword arguments, return (parsed body, integer status code) when
\* called with return_status=True; every typed method called without
\* return_status returns the parsed body alone; each of the other eleven
\* typed methods, called with return_status, raises TypeError and sends no
\* request.
C4_ReturnStatus ==
    \A c \in Calls :
        (calls[c].entry \in TypedMethods /\ Ended(c) /\ NoTransportOrParseError(c)) =>
            /\ (calls[c].entry \in KwargsMethods /\ calls[c].kwargs = ReturnStatus(TRUE))
                  => ReturnedPair(c)
            /\ calls[c].kwargs = NoKwargs => ReturnedBody(c)
            /\ (calls[c].entry \notin KwargsMethods /\ calls[c].kwargs # NoKwargs)
                  => /\ calls[c].pc = "raised"
                     /\ calls[c].error = "TypeError"
                     /\ ~HasSent(c)

\* get_past_trades, called with return_status=True, has returned the pair.
C4_Witness ==
    \E c \in Calls :
        /\ calls[c].entry = "get_past_trades"
        /\ calls[c].kwargs = ReturnStatus(TRUE)
        /\ ReturnedPair(c)

(***************************************************************************)
(* C5 (confirmed).  A response whose body is valid JSON is given back      *)
(* parsed and unchanged whatever its status code, 2xx or not; it is paired *)
(* with the status code exactly when return_status is given and true; a    *)
(* body that is not valid JSON makes the call fail with a parse error.     *)
(***************************************************************************)
C5_BodyPassThrough ==
    \A c \in Calls :
        (Ended(c) /\ HasSent(c) /\ calls[c].r.kind = "response") =>
            IF \E x \in ServedValues : calls[c].r.text = json_dumps(x)
            THEN \E x \in ServedValues :
                    /\ calls[c].r.text = json_dumps(x)
                    /\ calls[c].pc = "returned"
                    /\ calls[c].error = ""
                    /\ calls[c].result =
                          IF WantsStatus(c)
                          THEN [t |-> "tuple",
                                v |-> << PyDict(x.v), PyInt(calls[c].r.status_code) >>]
                          ELSE PyDict(x.v)
            ELSE /\ calls[c].pc = "raised"
                 /\ calls[c].error = "JSONDecodeError"
                 /\ calls[c].result = PyNone

\* A call got a response of status 500 with a JSON body and has returned it.
C5_Witness ==
    \E c \in Calls :
        /\ calls[c].pc = "returned"
        /\ calls[c].r.kind = "response"
        /\ calls[c].r.status_code = 500
        /\ calls[c].result.t = "dict"

(***************************************************************************)
(* C6 (confirmed).  A call of api_query, made by a caller or by a typed    *)
(* method, never sends more than one POST, and has sent exactly one when   *)
(* it ends, whether with a response of any status code, with a transport   *)
(* error or with a parse error: nothing is sent again.  (A call Python     *)
(* rejects while binding its arguments is no call of the method's body.)   *)
(***************************************************************************)
C6_OnePost ==
    \A c \in Calls :
        /\ Len(calls[c].sent) <= 1
        /\ calls[c].pc \in { "L33", "L34", "L35", "L37", "L49" } => Len(calls[c].sent) = 0
        /\ calls[c].pc = "L50" => Len(calls[c].sent) = 1
        /\ (Ended(c) /\ calls[c].error # "TypeError") =>
              /\ Len(calls[c].sent) = 1
              /\ calls[c].sent[1].url = client.base_url \o calls[c].method

\* A call has ended with a transport error, one POST sent.
C6_Witness ==
    \E c \in Calls :
        /\ calls[c].pc = "raised"
        /\ calls[c].error = "ConnectionError"
        /\ Len(calls[c].sent) = 1

(***************************************************************************)
(* C7.  As claimed: when a call has ended, the client's keys and base URL  *)
(* and the payload mapping the caller passed are as they were before it.   *)
(***************************************************************************)
C7_NoSideEffect ==
    \A c \in Calls : Ended(c) =>
        /\ client = PrivateClient_init(IN_public_key, IN_private_key, FALSE)
        /\ calls[c].payload = "caller" => caller_payload = calls[c].P0

(***************************************************************************)
(* C8.  The one call create_deposit_address makes, against its label.      *)
(***************************************************************************)

\* Call c is a call of create_deposit_address that reached api_query.
IsDepositCall(c) ==
    /\ calls[c].entry = "create_deposit_address"
    /\ calls[c].pc \notin { "idle" }
    /\ calls[c].error # "TypeError"

\* The label argument of a create_deposit_address call.
LabelOf(c) == DictGet(calls[c].args, "label")

\* C8 as claimed: the payload is {"label": l} whenever a label l is given.
C8_Original ==
    \A c \in Calls : IsDepositCall(c) =>
        /\ calls[c].method = PATH_deposit_prefix \o IN_btc \o PATH_deposit_suffix
        /\ LabelOf(c) = PyNone => calls[c].P0 = << >>
        /\ LabelOf(c) # PyNone => calls[c].P0 = << << K_label, LabelOf(c) >> >>

\* C8 (corrected).  create_deposit_address(c, label) makes one engine call to
\* /v1/deposit/c/newAddress; its payload is exactly {"label": l} when a label l
\* that is true in Python is given, and empty when no label is given or the
\* label is false in Python, as the empty string is.
C8_DepositLabel ==
    \A c \in Calls : IsDepositCall(c) =>
        /\ calls[c].method = PATH_deposit_prefix \o IN_btc \o PATH_deposit_suffix
        /\ Len(calls[c].sent) <= 1
        /\ Truthy(LabelOf(c)) => calls[c].P0 = << << K_label, LabelOf(c) >> >>
        /\ ~Truthy(LabelOf(c)) => calls[c].P0 = << >>
        /\ HasSent(c) =>
              \A R \in { DecodedPayload(LastRequest(c)) } :
                  /\ R.ok
                  /\ DictHas(R.v.v, K_label) = Truthy(LabelOf(c))
                  /\ Truthy(LabelOf(c)) => DictGet(R.v.v, K_label) = LabelOf(c)

\* create_deposit_address was called with a label and sent it.
C8_Witness ==
    \E c \in Calls :
        /\ IsDepositCall(c)
        /\ LabelOf(c) = PyStr(IN_quoted)
        /\ HasSent(c)
        /\ DictHas(DecodedPayload(LastRequest(c)).v.v, K_label)

(***************************************************************************)
(* C9.  As claimed: with calls of one client running at once, the request  *)
(* a call sends carries the path, the parameters and the nonce of that     *)
(* call alone, and a signature over that same payload.                     *)
(***************************************************************************)
C9_NoInterference ==
    \A c \in Calls : HasSent(c) =>
        \A R \in { DecodedPayload(LastRequest(c)) } :
            /\ R.ok
            /\ HasInjected(c, R.v.v)
            /\ \A key \in DictKeys(calls[c].P0) \ { K_request, K_nonce } :
                  DictHas(R.v.v, key) /\ DictGet(R.v.v, key) = DictGet(calls[c].P0, key)
            /\ DictGet(LastRequest(c).headers, H_signature)
                  = hmac_hexdigest(encode_utf8(IN_private_key),
                                   DictGet(LastRequest(c).headers, H_payload), "sha384")

(***************************************************************************)
(* C10.  The nonces of two requests sent one after the other, as numbers,  *)
(* against the clock readings t1 <= t2 they were made from.                *)
(***************************************************************************)

\* C10 as claimed: the nonce of the later request is not the smaller one.
C10_Original ==
    \A c \in Calls :
        (last_sent # << >> /\ HasSent(c) /\ TLeq(last_sent[1].t, calls[c].t)) =>
            NumLeq(last_sent[1].nonce, SentNonce(LastRequest(c)))

\* C10 (corrected).  For two calls made one after the other with readings
\* t1 <= t2, the nonce of the second is, as a number, not smaller than the
\* nonce of the first when t1 and t2 have the same number of decimal digits
\* or t2 has more than 18; zeros put after fewer digits can make it smaller
\* otherwise.
C10_NonceOrder ==
    \A c \in Calls :
        (/\ last_sent # << >>
         /\ HasSent(c)
         /\ TLeq(last_sent[1].t, calls[c].t)
         /\ \/ NumDigits(last_sent[1].t) = NumDigits(calls[c].t)
            \/ NumDigits(calls[c].t) > 18) =>
            NumLeq(last_sent[1].nonce, SentNonce(LastRequest(c)))

\* Two requests were sent one after the other from different readings of the
\* same number of digits.
C10_Witness ==
    \E c \in Calls :
        /\ last_sent # << >>
        /\ HasSent(c)
        /\ last_sent[1].t # calls[c].t
        /\ TLeq(last_sent[1].t, calls[c].t)
        /\ NumDigits(last_sent[1].t) = NumDigits(calls[c].t)
        /\ last_sent[1].nonce # SentNonce(LastRequest(c))

====
